---- MODULE Spec2Model ----
(***************************************************************************)
(* Model of rdma_bmon (src/main.py): a terminal dashboard that polls the   *)
(* InfiniBand port counters, turns them into rates (Diff), keeps a bounded *)
(* history (deque) and redraws a fixed frame with two bar charts.          *)
(*                                                                         *)
(* Numbers.  Counter values are integers.  The rates are Python floats;    *)
(* with the intervals of IntervalSet (powers of two) every rate is a       *)
(* dyadic rational far below 2^53, so the float operations of lines        *)
(* 117-119 and 66 are exact and are modelled by exact rationals [n, d].    *)
(* The bar scaling of lines 145-163 is not exact: height / max(y) and      *)
(* x * y_factor each round to a 53-bit significand.  Those two operations  *)
(* are modelled bit for bit (FDivPos, FMulPos: round to nearest, ties to   *)
(* even), as is the `mod += 1.0` inside Python's float % (line 162).       *)
(*                                                                         *)
(* Strings are sequences of tokens.  A token is one displayed character,   *)
(* or one of the colour escape sequences RED, GREEN, YELLOW, CC.  The box  *)
(* and block characters are named after their list index (box0 .. box10,   *)
(* b1 .. b8); "|", "-" and "+" stand for the light line characters of      *)
(* lines 130-135.                                                          *)
(*                                                                         *)
(* Time is counted in half seconds.  The run is the one without --csv.     *)
(***************************************************************************)
EXTENDS Integers, Sequences, FiniteSets, TLC

\* ------------------------------------------------------------------ bounds
MaxTicks == 3
MaxCols == 6
MaxRows == 6
MaxWork == 2
MaxOversleep == 1

\* the narrowest terminal for which deque(maxlen=cols//2-1) can be built and
\* the shortest one with a chart body (rows - 5 >= 0)
MinCols == 3
MinRows == 5

\* ------------------------------------------------------- exact rationals
RECURSIVE Gcd(_, _)
Gcd(a, b) == IF b = 0 THEN a ELSE Gcd(b, a % b)

Abs(x) == IF x < 0 THEN -x ELSE x

\* the rational n/d in lowest terms, d > 0
Rat(n, d) ==
  LET s == IF d < 0 THEN -1 ELSE 1
      g == Gcd(Abs(n), Abs(d))
  IN  [n |-> (s * n) \div g, d |-> (s * d) \div g]

RZero == [n |-> 0, d |-> 1]
RInt(i) == [n |-> i, d |-> 1]
RMul(a, b) == Rat(a.n * b.n, a.d * b.d)
RSub(a, b) == Rat(a.n * b.d - b.n * a.d, a.d * b.d)
RLess(a, b) == a.n * b.d < b.n * a.d
RInv(a) == Rat(a.d, a.n)
RFloor(a) == a.n \div a.d

\* Python's max() over a non-empty list: the first largest element
RECURSIVE RMaxFrom(_, _, _)
RMaxFrom(s, i, best) ==
  IF i > Len(s) THEN best
  ELSE RMaxFrom(s, i + 1, IF RLess(best, s[i]) THEN s[i] ELSE best)

RMax(s) == RMaxFrom(s, 2, s[1])

Reverse(s) == [i \in 1..Len(s) |-> s[Len(s) + 1 - i]]

\* ------------------------------------------- binary64 (IEEE 754) arithmetic
\* A positive double is [m, e]: m its 53 significand bits, most significant
\* first, and e the exponent of the last bit (value = m * 2^e).  The
\* operands of the program's divisions and multiplications are below 2^17,
\* so every intermediate value here stays below 2^31.
Precision == 53
LimbBits == 13
LimbBase == 8192

Zeros(k) == [i \in 1..k |-> 0]

\* the number of bits of v > 0 (0 for v = 0)
BitLen(v) == CHOOSE k \in 0..30 : v < 2^k /\ (k = 0 \/ v >= 2^(k - 1))

Log2(p) == BitLen(p) - 1

\* the w low bits of v, most significant first
IntToBits(v, w) == [i \in 1..w |-> (v \div 2^(w - i)) % 2]

RECURSIVE BitsToInt(_)
BitsToInt(bits) ==
  IF Len(bits) = 0 THEN 0
  ELSE IF Len(bits) = 1 THEN bits[1]
  ELSE LET h == Len(bits) \div 2
       IN  BitsToInt(SubSeq(bits, 1, h)) * 2^(Len(bits) - h)
             + BitsToInt(SubSeq(bits, h + 1, Len(bits)))

\* bits + 1; the result is one bit longer when every bit was 1
Inc(bits) ==
  LET zs == {i \in 1..Len(bits) : bits[i] = 0}
  IN  IF zs = {} THEN <<1>> \o Zeros(Len(bits))
      ELSE LET p == CHOOSE i \in zs : \A j \in zs : j <= i
           IN  [i \in 1..Len(bits) |->
                  IF i < p THEN bits[i] ELSE IF i = p THEN 1 ELSE 0]

StripZeros(bits) ==
  LET os == {i \in 1..Len(bits) : bits[i] = 1}
  IN  IF os = {} THEN <<>>
      ELSE SubSeq(bits, CHOOSE i \in os : \A j \in os : i <= j, Len(bits))

AnyOne(bits) == \E i \in 1..Len(bits) : bits[i] = 1

\* round a bit string without leading zeros (value bits * 2^e) to Precision
\* bits: round to nearest, ties to even
RoundBits(bits, e) ==
  IF Len(bits) <= Precision
  THEN [m |-> bits \o Zeros(Precision - Len(bits)), e |-> e - (Precision - Len(bits))]
  ELSE LET drop == Len(bits) - Precision
           kept == SubSeq(bits, 1, Precision)
           guard == bits[Precision + 1]
           sticky == AnyOne(SubSeq(bits, Precision + 2, Len(bits)))
           up == guard = 1 /\ (sticky \/ kept[Precision] = 1)
           r == IF up THEN Inc(kept) ELSE kept
       IN  IF Len(r) > Precision
           THEN [m |-> SubSeq(r, 1, Precision), e |-> e + drop + 1]
           ELSE [m |-> r, e |-> e + drop]

\* scale a and b by powers of two until b <= a < 2b; sh is the exponent
RECURSIVE NormShift(_, _, _)
NormShift(a, b, sh) ==
  IF a < b THEN NormShift(2 * a, b, sh - 1)
  ELSE IF a >= 2 * b THEN NormShift(a, 2 * b, sh + 1)
  ELSE [a |-> a, b |-> b, sh |-> sh]

\* the double nearest to a / b, for integers a, b > 0: long division, the
\* leading 1 and then four limbs of 13 quotient bits, rounded on the remainder
FDivPos(a, b) ==
  LET s == NormShift(a, b, 0)
      r0 == s.a - s.b
      q1 == (r0 * LimbBase) \div s.b
      r1 == (r0 * LimbBase) % s.b
      q2 == (r1 * LimbBase) \div s.b
      r2 == (r1 * LimbBase) % s.b
      q3 == (r2 * LimbBase) \div s.b
      r3 == (r2 * LimbBase) % s.b
      q4 == (r3 * LimbBase) \div s.b
      r4 == (r3 * LimbBase) % s.b
      q == <<1>> \o IntToBits(q1, LimbBits) \o IntToBits(q2, LimbBits)
                 \o IntToBits(q3, LimbBits) \o IntToBits(q4, LimbBits)
      up == 2 * r4 > s.b \/ (2 * r4 = s.b /\ q4 % 2 = 1)
      r == IF up THEN Inc(q) ELSE q
  IN  IF Len(r) > Precision
      THEN [m |-> SubSeq(r, 1, Precision), e |-> s.sh - (Precision - 1) + 1]
      ELSE [m |-> r, e |-> s.sh - (Precision - 1)]

\* the exact product bits * x of a 53-bit significand and an integer x > 0
MulBits(bits, x) ==
  LET Limb(i) == BitsToInt(SubSeq(bits, 2 + LimbBits * (i - 1), 1 + LimbBits * i))
      t4 == Limb(4) * x
      t3 == Limb(3) * x + t4 \div LimbBase
      t2 == Limb(2) * x + t3 \div LimbBase
      t1 == Limb(1) * x + t2 \div LimbBase
      t0 == bits[1] * x + t1 \div LimbBase
  IN  IntToBits(t0, BitLen(t0)) \o IntToBits(t1 % LimbBase, LimbBits)
        \o IntToBits(t2 % LimbBase, LimbBits) \o IntToBits(t3 % LimbBase, LimbBits)
        \o IntToBits(t4 % LimbBase, LimbBits)

\* the double nearest to f * (xn / xd), f a positive double, xn > 0 and xd a
\* power of two
FMulPos(f, xn, xd) == RoundBits(MulBits(f.m, xn), f.e - Log2(xd))

\* integer part and fraction bits (after the binary point) of a positive double
Split(f) ==
  IF f.e >= 0 THEN [int |-> f.m \o Zeros(f.e), frac |-> <<>>]
  ELSE IF -f.e >= Precision THEN [int |-> <<>>, frac |-> Zeros(-f.e - Precision) \o f.m]
  ELSE [int |-> SubSeq(f.m, 1, Precision + f.e),
        frac |-> SubSeq(f.m, Precision + f.e + 1, Precision)]

Top3(frac) == BitsToInt(SubSeq(frac \o Zeros(3), 1, 3))

\* 1.0 - 0.frac rounded to a double (the `mod += 1.0` of Python's float %),
\* then floor(8 * that): 8 when the sum rounds up to 1.0
ComplementEighths(frac) ==
  LET inv == [i \in 1..Len(frac) |-> 1 - frac[i]]
      r == RoundBits(StripZeros(Inc(inv)), -Len(frac))
      rfrac == Zeros(-r.e - Precision) \o r.m
  IN  IF -r.e < Precision THEN 8 ELSE Top3(rfrac)

\* y_factor = height / max(y), 0 on ZeroDivisionError (lines 144-147, 151-154)
Factor(height, mx) ==
  IF mx.n = 0 \/ height = 0 THEN [zero |-> TRUE, neg |-> FALSE, f |-> <<>>]
  ELSE [zero |-> FALSE, neg |-> (height < 0) # (mx.n < 0),
        f |-> FDivPos(Abs(height) * mx.d, Abs(mx.n))]

\* val = x * y_factor; whole_height = floor(val); part_height =
\* floor((val % 1) * 8)   (lines 148, 161-163 and 155, 177-179)
BarHeight(x, fac) ==
  IF fac.zero \/ x.n = 0 THEN [whole |-> 0, eighths |-> 0]
  ELSE LET v == Split(FMulPos(fac.f, Abs(x.n), x.d))
           int == BitsToInt(v.int)
       IN  IF fac.neg = (x.n < 0)
           THEN [whole |-> int, eighths |-> Top3(v.frac)]
           ELSE IF AnyOne(v.frac)
           THEN [whole |-> -(int + 1), eighths |-> ComplementEighths(v.frac)]
           ELSE [whole |-> -int, eighths |-> 0]

\* ---------------------------------------------------------------- strings
\* box = ['┏', '┓', '┗', '┛', '┃', '━', ...] and block = [' ', '▁', ..., '█']
\* (lines 80-81), one token per character
box == <<"box0", "box1", "box2", "box3", "box4", "box5", "box6", "box7", "box8", "box9", "box10">>
block == <<" ", "b1", "b2", "b3", "b4", "b5", "b6", "b7", "b8">>

\* RED, GREEN, YELLOW = ESC [ 3 x m and CC = ESC [ 0 m (lines 100-103)
IsEscape(t) == t \in {"RED", "GREEN", "YELLOW", "CC"}
RawLen(t) == IF t = "CC" THEN 4 ELSE IF IsEscape(t) THEN 5 ELSE 1

\* len(s): every character of every escape sequence counts
PyLen(s) ==
  Len(s) + 4 * Cardinality({i \in 1..Len(s) : s[i] \in {"RED", "GREEN", "YELLOW"}})
         + 3 * Cardinality({i \in 1..Len(s) : s[i] = "CC"})

\* slen(s) = len(ansi_escape.sub('', s))   (lines 105-108)
slen(s) == Cardinality({i \in 1..Len(s) : ~IsEscape(s[i])})

\* c * k: empty for k <= 0
Rep(c, k) == [i \in 1..(IF k < 0 THEN 0 ELSE k) |-> c]

\* the format specs {s:<w} and {s:>w}: pad, never truncate
LJust(s, w) == s \o Rep(" ", w - Len(s))
RJust(s, w) == Rep(" ", w - Len(s)) \o s

Digit(i) == <<"0", "1", "2", "3", "4", "5", "6", "7", "8", "9">>[i + 1]

RECURSIVE IntToStr(_)
IntToStr(v) == IF v < 10 THEN <<Digit(v)>> ELSE Append(IntToStr(v \div 10), Digit(v % 10))

\* the digits of v, zero-padded on the left to w digits
FracToStr(v, w) == LET t == IntToStr(v) IN [i \in 1..(w - Len(t)) |-> "0"] \o t

\* f'{num:.{precision}f}' of the float with the exact value r: rounded to
\* nearest, ties to even; the sign is kept even when the digits are all 0
FormatF(r, precision) ==
  LET p == 10 ^ precision
      q == (Abs(r.n) * p) \div r.d
      rem == (Abs(r.n) * p) % r.d
      up == 2 * rem > r.d \/ (2 * rem = r.d /\ q % 2 = 1)
      v == IF up THEN q + 1 ELSE q
  IN  (IF r.n < 0 THEN <<"-">> ELSE <<>>) \o IntToStr(v \div p)
        \o (IF precision > 0 THEN <<".">> \o FracToStr(v % p, precision) ELSE <<>>)

RAbsLess(r, k) == Abs(r.n) < k * r.d

\* sizeof_fmt(num, suffix='B', precision=2)   (lines 44-49)
SizeUnits == << <<>>, <<"K", "i">>, <<"M", "i">>, <<"G", "i">>, <<"T", "i">>, <<"P", "i">>, <<"E", "i">>, <<"Z", "i">> >>

RECURSIVE SizeLoop(_, _)
SizeLoop(num, u) ==
  IF u > Len(SizeUnits) THEN FormatF(num, 1) \o <<"Y", "i", "B">>
  ELSE IF RAbsLess(num, 1024) THEN FormatF(num, 2) \o SizeUnits[u] \o <<"B">>
  ELSE SizeLoop(Rat(num.n, num.d * 1024), u + 1)

sizeof_fmt(num) == SizeLoop(num, 1)

\* unit_fmt(num, precision=2)   (lines 52-57).  num / 1000.0 is taken exactly:
\* the float quotient can differ from it in the last place.
CountUnits == << <<>>, <<"K">>, <<"M">>, <<"B">>, <<"T">> >>

RECURSIVE UnitLoop(_, _)
UnitLoop(num, u) ==
  IF u > Len(CountUnits) THEN FormatF(num, 1) \o <<"?">>
  ELSE IF RAbsLess(num, 1000) THEN FormatF(num, 2) \o CountUnits[u]
  ELSE UnitLoop(Rat(num.n, num.d * 1000), u + 1)

unit_fmt(num) == UnitLoop(num, 1)

\* ''.join(cells)
RECURSIVE Join(_)
Join(cells) ==
  IF Len(cells) = 0 THEN <<>>
  ELSE IF Len(cells) = 1 THEN cells[1]
  ELSE LET h == Len(cells) \div 2
       IN  Join(SubSeq(cells, 1, h)) \o Join(SubSeq(cells, h + 1, Len(cells)))

\* ------------------------------------------------------------- the inputs
\* Diff('port_rcv_data', 'port_xmit_data', 'port_rcv_packets',
\*      'port_xmit_packets')   (lines 96-97)
Fields == <<"port_rcv_data", "port_xmit_data", "port_rcv_packets", "port_xmit_packets">>
FieldSet == {Fields[i] : i \in 1..Len(Fields)}

\* the counter files found by CounterReader.__init__: the tracked ones and
\* one that Diff does not track
CounterNames == FieldSet \cup {"symbol_error"}

\* k.endswith('_data') over CounterNames (line 117)
EndsWithData(k) == k \in {"port_rcv_data", "port_xmit_data"}

Snapshot(rx, tx, rp, tp, other) ==
  [k \in CounterNames |->
     IF k = "port_rcv_data" THEN rx
     ELSE IF k = "port_xmit_data" THEN tx
     ELSE IF k = "port_rcv_packets" THEN rp
     ELSE IF k = "port_xmit_packets" THEN tp
     ELSE other]

\* what _read_all may return in a tick
SnapshotSet ==
  { Snapshot(0, 0, 0, 0, 0), Snapshot(1000, 500, 600, 2, 7), Snapshot(49, 0, 3, 5, 7) }

\* --rate, in seconds; the clock counts half seconds
UnitsPerSecond == 2
IntervalSet == {Rat(1, 2), Rat(1, 1)}
Units(iv) == (iv.n * UnitsPerSecond) \div iv.d

\* the nic argument, as characters
NicSet == {<<"m", "l", "x", "5", "_", "0">>}

VARIABLES
  pc,          \* where main is: "start", "hidden", "registered", "running",
               \* "yielded" (periodic suspended at its yield), "exited"
  cols, rows,  \* os.get_terminal_size(), read once (line 83)
  interval,    \* the interval argument
  nic,         \* the nic argument
  cursor,      \* "shown" or "hidden": the last cursor sequence written
  registered,  \* cleanup is registered with atexit
  exitCause,   \* "none", or the exception or signal that ended the process
  clears,      \* how many times the clear-screen sequence was written
  d,           \* Diff._d
  queue,       \* the deque of samples
  sample,      \* the dict returned by the last diff.feed
  snap,        \* the snapshot of the last tick, prevSnap the one before
  prevSnap,
  pushed,      \* every sample appended to the deque so far, in order
  ticks,       \* iterations of the for loop of line 116 so far
  txH, rxH,    \* whole_height and part_height of each bar, newest first
  bars,        \* the chart cells after lines 156-196
  owner,       \* per chart column, the bar drawn there last
  lines,       \* the frame written by lines 208-210
  elapsed,     \* end - start of the last tick that reached line 30, in clock units
  gap,         \* clock units between the last two calls of diff.feed
  sinceFeed,   \* clock units from the last diff.feed to the end of the sleep
  warnings     \* lines written to stderr by line 33

vars == <<pc, cols, rows, interval, nic, cursor, registered, exitCause, clears,
          d, queue, sample, snap, prevSnap, pushed, ticks, txH, rxH, bars,
          owner, lines, elapsed, gap, sinceFeed, warnings>>

progVars == <<d, queue, sample, snap, prevSnap, pushed, ticks, txH, rxH, bars,
              owner, lines>>
timeVars == <<elapsed, gap, sinceFeed, warnings>>
termVars == <<cols, rows, interval, nic>>

NoSnapshot == [k \in CounterNames |-> 0]
EmptyDict == [k \in {} |-> RZero]

Init ==
  /\ pc = "start"
  /\ cols \in MinCols..MaxCols
  /\ rows \in MinRows..MaxRows
  /\ interval \in IntervalSet
  /\ nic \in NicSet
  /\ cursor = "shown"
  /\ registered = FALSE
  /\ exitCause = "none"
  /\ clears = 0
  /\ d = EmptyDict
  /\ queue = <<>>
  /\ sample = EmptyDict
  /\ snap = NoSnapshot
  /\ prevSnap = NoSnapshot
  /\ pushed = <<>>
  /\ ticks = 0
  /\ txH = <<>>
  /\ rxH = <<>>
  /\ bars = <<>>
  /\ owner = <<>>
  /\ lines = <<>>
  /\ elapsed = 0
  /\ gap = 0
  /\ sinceFeed = 0
  /\ warnings = 0

\* ------------------------------------------------------ the rate pipeline
\* Scaled without the test of the field name: every counter is multiplied by 4
ScaledAllBytes(s, iv) ==
  [k \in DOMAIN s |-> RMul(RInt(s[k] * 4), RInv(iv))]

\* vals = {k: v*4 if k.endswith('_data') else v ...};
\* vals = {k: v * (1/interval) ...}   (lines 117-118)
Scaled(s, iv) ==
  [k \in DOMAIN s |-> RMul(RInt(IF EndsWithData(k) THEN s[k] * 4 ELSE s[k]), RInv(iv))]

\* Feed with self._d.get(k, 0): a missing baseline counts as 0
FeedZeroDefault(dd, vals) ==
  [diff |-> [k \in FieldSet |-> RSub(vals[k], IF k \in DOMAIN dd THEN dd[k] ELSE RZero)],
   d |-> [k \in FieldSet |-> vals[k]]]

\* Diff.feed (lines 65-68): the dict returned and the new self._d
Feed(dd, vals) ==
  [diff |-> [k \in FieldSet |-> RSub(vals[k], IF k \in DOMAIN dd THEN dd[k] ELSE vals[k])],
   d |-> [k \in FieldSet |-> vals[k]]]

\* queue = deque(maxlen=cols//2-1)   (line 98)
Capacity(c) == c \div 2 - 1

\* QueueAppend that refuses the new sample when the deque is full
QueueAppendKeepOldest(q, x, maxlen) ==
  IF Len(q) >= maxlen THEN q ELSE Append(q, x)

\* deque.append on a deque with that maxlen (line 138)
QueueAppend(q, x, maxlen) ==
  IF maxlen = 0 THEN q
  ELSE IF Len(q) = maxlen THEN Append(Tail(q), x)
  ELSE Append(q, x)

\* [x[field] for x in queue]   (lines 140-141)
Series(q, field) == [i \in 1..Len(q) |-> q[i][field]]

\* y = [x*y_factor for x in reversed(y)] and the heights taken from each
\* val in the drawing loops (lines 143-148, 151-155, 161-163, 177-179)
Heights(y, height) ==
  LET fac == Factor(height, RMax(y))
      r == Reverse(y)
  IN  [i \in 1..Len(y) |-> BarHeight(r[i], fac)]

\* ---------------------------------------------------------------- the frame
PyBox(i) == box[i + 1]

\* a list index: negative indexes count from the end
PyIdx(i, n) == IF i < 0 THEN i + n + 1 ELSE i + 1

\* box[4] + text + fill*(cols-2-width) + box[4]
Boxed(text, fill, width, c) ==
  <<PyBox(4)>> \o text \o Rep(fill, c - 2 - width) \o <<PyBox(4)>>

\* line 125 and line 205
TopBorder(c) == <<PyBox(0)>> \o Rep(PyBox(5), c - 2) \o <<PyBox(1)>>
BottomBorder(c) == <<PyBox(2)>> \o Rep(PyBox(5), c - 2) \o <<PyBox(3)>>

\* line 130
HeaderText ==
  <<"YELLOW">> \o LJust(<<"I", "n", "t", "e", "r", "f", "a", "c", "e">>, 28) \o <<"CC">>
    \o <<" ", "|", " ">> \o <<"RED">> \o LJust(<<"R", "X", " ", "b", "p", "s">>, 10)
    \o <<" ">> \o RJust(<<"p", "p", "s">>, 10) \o <<"CC">>
    \o <<" ", "|", " ">> \o <<"GREEN">> \o LJust(<<"T", "X", " ", "b", "p", "s">>, 10)
    \o <<" ">> \o RJust(<<"p", "p", "s">>, 10) \o <<"CC">>

\* line 132
ValueText(name, dd) ==
  <<"YELLOW">> \o LJust(name, 28) \o <<"CC">>
    \o <<" ", "|", " ">> \o <<"RED">> \o RJust(sizeof_fmt(dd["port_rcv_data"]), 10)
    \o <<" ">> \o RJust(unit_fmt(dd["port_rcv_packets"]), 10) \o <<"CC">>
    \o <<" ", "|", " ">> \o <<"GREEN">> \o RJust(sizeof_fmt(dd["port_xmit_data"]), 10)
    \o <<" ">> \o RJust(unit_fmt(dd["port_xmit_packets"]), 10) \o <<"CC">>

\* line 135
RuleText == Rep("-", 29) \o <<"+">> \o Rep("-", 23) \o <<"+">> \o Rep("-", 23)

\* lines 124-136: the four lines above the chart
HeadLines(name, dd, c) ==
  << TopBorder(c),
     Boxed(HeaderText, " ", slen(HeaderText), c),
     Boxed(ValueText(name, dd), " ", slen(ValueText(name, dd)), c),
     Boxed(RuleText, "-", PyLen(RuleText), c) >>

\* bars = [[' ']*(cols-2) for _ in range(height)]   (line 156)
BlankBars(height, c) == [r \in 1..(IF height < 0 THEN 0 ELSE height) |-> [x \in 1..(c - 2) |-> <<" ">>]]

\* the cell that row j (0 = bottom) of a bar gets (lines 166-172, 182-188)
Glyph(j, h) ==
  IF j < h.whole THEN <<block[9]>>
  ELSE IF j = h.whole THEN <<block[h.eighths + 1]>>
  ELSE <<block[1]>>

\* one loop of lines 159-172 or 175-188: bar e (0 = newest) goes to the list
\* index offset - e of every row
RECURSIVE DrawSeries(_, _, _, _)
DrawSeries(b, hs, e, offset) ==
  IF e >= Len(hs) THEN b
  ELSE LET col == PyIdx(offset - e, Len(b[1]))
           height == Len(b)
       IN  DrawSeries([r \in 1..height |-> [b[r] EXCEPT ![col] = Glyph(height - r, hs[e + 1])]],
                      hs, e + 1, offset)

\* which bar the same loops leave in each column
RECURSIVE OwnSeries(_, _, _, _, _)
OwnSeries(o, tag, count, e, offset) ==
  IF e >= count THEN o
  ELSE OwnSeries([o EXCEPT ![PyIdx(offset - e, Len(o))] = <<tag, e>>], tag, count, e + 1, offset)

TxOffset(c) == c - 2 - 1
RxOffset(c) == (c - 2) \div 2 - 2
GutterOffset(c) == (c - 2) \div 2 - 1

\* lines 190-196 on one row
ColourRow(row, c) ==
  LET n == Len(row)
      g == GutterOffset(c)
      r1 == [row EXCEPT ![PyIdx(0, n)] = <<"RED">> \o @]
      r2 == [r1 EXCEPT ![PyIdx(g - 1, n)] = @ \o <<"CC">>]
      r3 == [r2 EXCEPT ![PyIdx(g, n)] = <<" ">>]
      r4 == [r3 EXCEPT ![PyIdx(g + 1, n)] = <<"GREEN">> \o @]
  IN  [r4 EXCEPT ![PyIdx(n - 1, n)] = @ \o <<"CC">>]

\* lines 149-196: the chart cells
DrawBars(tx, rx, height, c) ==
  LET b0 == BlankBars(height, c)
  IN  IF Len(b0) = 0 THEN b0
      ELSE LET b1 == DrawSeries(b0, tx, 0, TxOffset(c))
               b2 == DrawSeries(b1, rx, 0, RxOffset(c))
           IN  [r \in 1..Len(b2) |-> ColourRow(b2[r], c)]

NoOwner == <<"none", 0>>

DrawOwner(count, height, c) ==
  LET o0 == [x \in 1..(c - 2) |-> NoOwner]
  IN  IF height <= 0 THEN o0
      ELSE LET o1 == OwnSeries(o0, "tx", count, 0, TxOffset(c))
               o2 == OwnSeries(o1, "rx", count, 0, RxOffset(c))
           IN  [o2 EXCEPT ![PyIdx(GutterOffset(c), c - 2)] = <<"gutter", 0>>]

\* Frame with range(rows-len(lines)) padding lines
FramePadToRows(head, b, c, r) ==
  LET chart == [i \in 1..Len(b) |-> Boxed(Join(b[i]), " ", PyLen(Join(b[i])), c)]
      sofar == head \o chart
      pad == [i \in 1..(IF r - Len(sofar) < 0 THEN 0 ELSE r - Len(sofar)) |->
                <<PyBox(4)>> \o Rep(" ", c - 2) \o <<PyBox(4)>>]
  IN  sofar \o pad \o <<BottomBorder(c)>>

\* lines 198-205: chart lines, padding lines, bottom border
Frame(head, b, c, r) ==
  LET chart == [i \in 1..Len(b) |-> Boxed(Join(b[i]), " ", PyLen(Join(b[i])), c)]
      sofar == head \o chart
      pad == [i \in 1..(IF r - 2 - Len(sofar) < 0 THEN 0 ELSE r - 2 - Len(sofar)) |->
                <<PyBox(4)>> \o Rep(" ", c - 2) \o <<PyBox(4)>>]
  IN  sofar \o pad \o <<BottomBorder(c)>>

\* -------------------------------------------------------------- the actions
\* the interpreter ends: the atexit handlers run (cleanup, lines 88-91) when
\* `handlers`, and the process is gone
Terminate(cause, handlers) ==
  /\ pc' = "exited"
  /\ exitCause' = cause
  /\ cursor' = IF handlers /\ registered THEN "shown" ELSE cursor
  /\ UNCHANGED <<registered, clears>>

\* lines 85-86
HideCursor ==
  /\ pc = "start"
  /\ pc' = "hidden"
  /\ cursor' = "hidden"
  /\ UNCHANGED <<registered, exitCause, clears, termVars, progVars, timeVars>>

\* lines 88-91
RegisterCleanup ==
  /\ pc = "hidden"
  /\ pc' = "registered"
  /\ registered' = TRUE
  /\ UNCHANGED <<cursor, exitCause, clears, termVars, progVars, timeVars>>

\* lines 93-114: clear the screen, build Diff and the deque
Setup ==
  /\ pc = "registered"
  /\ pc' = "running"
  /\ clears' = clears + 1
  /\ d' = EmptyDict
  /\ queue' = <<>>
  /\ UNCHANGED <<cursor, registered, exitCause, termVars, timeVars, sample, snap,
                 prevSnap, pushed, ticks, txH, rxH, bars, owner, lines>>

\* one iteration of the loop of line 116: periodic runs lines 28-29 and the
\* body runs lines 117-210
Tick ==
  /\ pc = "running"
  /\ ticks < MaxTicks
  /\ \E s \in SnapshotSet :
       LET f == Feed(d, Scaled(s, interval))
           q == QueueAppend(queue, f.diff, Capacity(cols))
           height == rows - 4 - 1
       IN  /\ d' = f.d
           /\ sample' = f.diff
           /\ queue' = q
           /\ pushed' = Append(pushed, f.diff)
           /\ snap' = s
           /\ prevSnap' = snap
           /\ ticks' = ticks + 1
           /\ gap' = sinceFeed
           /\ sinceFeed' = 0
           /\ elapsed' = 0
           /\ UNCHANGED <<warnings, termVars>>
           /\ IF Len(q) = 0
              THEN \* max() of an empty list raises ValueError (line 145)
                   /\ Terminate("ValueError", TRUE)
                   /\ UNCHANGED <<txH, rxH, bars, owner, lines>>
              ELSE LET tx == Heights(Series(q, "port_xmit_data"), height)
                       rx == Heights(Series(q, "port_rcv_data"), height)
                       b == DrawBars(tx, rx, height, cols)
                   IN  /\ txH' = tx
                       /\ rxH' = rx
                       /\ bars' = b
                       /\ owner' = DrawOwner(Len(q), height, cols)
                       /\ lines' = Frame(HeadLines(nic, f.diff, cols), b, cols, rows)
                       /\ pc' = "yielded"
                       /\ UNCHANGED <<cursor, registered, exitCause, clears>>

\* _read fails (open or eval raises, lines 39-41): the exception leaves main
ReadFail ==
  /\ pc = "running"
  /\ Terminate("CounterReadError", TRUE)
  /\ UNCHANGED <<termVars, progVars, timeVars>>

\* periodic after the yield (lines 30-34): the tick has taken w clock units
\* from `start` to `end`, and the sleep may last o units longer than asked
Sleep ==
  /\ pc = "yielded"
  /\ \E w \in 0..MaxWork :
       LET time_to_sleep == Units(interval) - w
       IN  /\ elapsed' = w
           /\ IF time_to_sleep < 0
              THEN \* the warning is printed, then time.sleep raises ValueError
                   /\ warnings' = warnings + 1
                   /\ Terminate("ValueError", TRUE)
                   /\ sinceFeed' = w
              ELSE /\ \E o \in 0..MaxOversleep : sinceFeed' = w + time_to_sleep + o
                   /\ pc' = "running"
                   /\ UNCHANGED <<cursor, registered, exitCause, clears, warnings>>
  /\ UNCHANGED <<gap, termVars, progVars>>

\* SIGINT: KeyboardInterrupt is raised wherever main is and leaves it
Interrupt ==
  /\ pc # "exited"
  /\ Terminate("KeyboardInterrupt", TRUE)
  /\ UNCHANGED <<termVars, progVars, timeVars>>

\* a signal Python does not handle (SIGTERM, SIGKILL): atexit handlers are
\* not run
Kill ==
  /\ pc # "exited"
  /\ Terminate("signal", FALSE)
  /\ UNCHANGED <<termVars, progVars, timeVars>>

Next ==
  \/ HideCursor
  \/ RegisterCleanup
  \/ Setup
  \/ Tick
  \/ ReadFail
  \/ Sleep
  \/ Interrupt
  \/ Kill

Spec == Init /\ [][Next]_vars

\* ------------------------------------------------------------- properties
Drawn == lines # <<>>
ChartHeight == rows - 5
DataFactor(k) == IF EndsWithData(k) THEN 4 ELSE 1

\* C1: from the second tick on, the rate of each byte field is
\* (current - previous) * 4 / interval and the rate of each packet field is
\* (current - previous) / interval, whatever the sign of the difference.
C1_RateFormula ==
  ticks >= 2 =>
    \A k \in FieldSet :
      sample[k] = Rat((snap[k] - prevSnap[k]) * DataFactor(k) * interval.d, interval.n)

\* rx 0 -> 1000 and tx 0 -> 500 with interval 1 s were reported as 4000/s, 2000/s
C1_Witness ==
  /\ ticks = 2
  /\ interval = Rat(1, 1)
  /\ prevSnap["port_rcv_data"] = 0 /\ snap["port_rcv_data"] = 1000
  /\ prevSnap["port_xmit_data"] = 0 /\ snap["port_xmit_data"] = 500
  /\ sample["port_rcv_data"] = RInt(4000)
  /\ sample["port_xmit_data"] = RInt(2000)

\* C2: the first feed returns 0 for every tracked field and leaves in _d the
\* fed values of exactly the tracked fields; the second feed reports the
\* difference to the first snapshot.
C2_FirstFeed ==
  /\ ticks = 1 =>
       /\ \A k \in FieldSet : sample[k] = RZero
       /\ DOMAIN d = FieldSet
       /\ \A k \in FieldSet : d[k] = Scaled(snap, interval)[k]
  /\ ticks = 2 =>
       \A k \in FieldSet :
         sample[k] = RSub(Scaled(snap, interval)[k], Scaled(prevSnap, interval)[k])

\* a first feed of non-zero counters returned 0
C2_Witness ==
  /\ ticks = 1
  /\ snap["port_rcv_data"] = 1000
  /\ sample["port_rcv_data"] = RZero
  /\ d["port_rcv_data"] # RZero

\* C3: the deque never holds more than cols // 2 - 1 samples, and holds the
\* most recent min(capacity, pushes) samples in arrival order.
C3_Window ==
  LET cap == cols \div 2 - 1
      n == IF Len(pushed) < cap THEN Len(pushed) ELSE cap
  IN  /\ Len(queue) <= cap
      /\ queue = SubSeq(pushed, Len(pushed) - n + 1, Len(pushed))

\* the oldest sample was evicted from a full window of capacity 2
C3_Witness ==
  /\ cols \div 2 - 1 = 2
  /\ Len(pushed) = 3
  /\ Len(queue) = 2
  /\ pushed[1] # pushed[2]
  /\ pushed[1] # pushed[3]

\* C4: an overrun tick (elapsed time above the period) warns and carries on:
\* the warning is never followed by the end of the process.
C4_OverrunNotFatal == warnings > 0 => pc # "exited"

\* C5: the rate of a byte field is the counter difference times 4 divided by
\* the wall-clock time between the two feeds.
C5_RateUsesElapsed ==
  (ticks >= 2 /\ gap > 0) =>
    \A k \in {"port_rcv_data", "port_xmit_data"} :
      sample[k] = Rat((snap[k] - prevSnap[k]) * 4 * UnitsPerSecond, gap)

\* floor(v * H / m) and floor(8 * ((v * H / m) mod 1)) in exact arithmetic
RefHeight(v, H, m) ==
  IF m.n = 0 THEN [whole |-> 0, eighths |-> 0]
  ELSE LET t == Rat(v.n * H * m.d, v.d * m.n)
       IN  [whole |-> RFloor(t), eighths |-> (8 * t.n) \div t.d - 8 * RFloor(t)]

RefHeights(y, H) == [i \in 1..Len(y) |-> RefHeight(Reverse(y)[i], H, RMax(y))]

\* C6: the heights of the bars of each series are the reference scaling of
\* that series against its own maximum: all 0 when the maximum is 0, else
\* whole = floor(v * H / max) and eighths = floor(8 * ((v * H / max) mod 1)).
C6_BarHeights ==
  Drawn =>
    /\ txH = RefHeights(Series(queue, "port_xmit_data"), ChartHeight)
    /\ rxH = RefHeights(Series(queue, "port_rcv_data"), ChartHeight)

\* C7: every line of the frame is cols characters wide on the screen.
C7_LineWidth == \A i \in 1..Len(lines) : slen(lines[i]) = cols

\* C8: a process that has ended has written the show-cursor sequence after
\* the hide-cursor sequence.
C8_CursorRestored == pc = "exited" => cursor = "shown"

\* C9: every retained TX sample is drawn in a column of its own right of the
\* gutter and every retained RX sample in a column of its own left of it.
C9_OwnColumns ==
  (Drawn /\ ChartHeight >= 1) =>
    \A e \in 0..(Len(queue) - 1) :
      /\ TxOffset(cols) - e > GutterOffset(cols)
      /\ owner[TxOffset(cols) - e + 1] = <<"tx", e>>
      /\ RxOffset(cols) - e >= 0
      /\ RxOffset(cols) - e < GutterOffset(cols)
      /\ owner[RxOffset(cols) - e + 1] = <<"rx", e>>

====
